---- MODULE Spec2Model ----
(***************************************************************************)
(* A model of the pi-robot control core:                                   *)
(*   - MotorController (motor_controller.py): the TB6612FNG pin writes of  *)
(*     stop() and drive_arcade(), with exact rational arithmetic;          *)
(*   - AutoAvoidRunner.run (autonomous_vl53l0x.py): the obstacle-avoidance *)
(*     loop, its interruptible waits, heartbeats and status reports;       *)
(*   - the web teleop (teleop_web.py): api_drive / api_stop / api_status   *)
(*     request threads, the command record under _state_lock and the       *)
(*     deadman watchdog thread.                                            *)
(*                                                                         *)
(* Numbers.  Python floats are modelled as exact rationals <<n, d>> with   *)
(* d > 0 in lowest terms, so clamping, mixing and calibration are computed *)
(* as the code computes them, without rounding.  Durations of the          *)
(* avoidance loop are counted in units of 10 ms; the wall clock of the     *)
(* teleop server is counted in ticks of 50 ms.                             *)
(***************************************************************************)
EXTENDS Integers, Sequences, FiniteSets, TLC

VARIABLES
    \* ---- MotorController: the output devices (gpiozero) ----
    pwm,          \* [side -> rational]  left_pwm.value / right_pwm.value
    in1,          \* [side -> BOOLEAN]   left_in1 / right_in1
    in2,          \* [side -> BOOLEAN]   left_in2 / right_in2
    stby,         \* BOOLEAN             the shared standby (enable) line
    \* ---- AutoAvoidRunner.run ----
    apc,          \* position of run()
    obstacle,     \* the local flag `obstacle`
    last_mm,      \* the local `last_mm` (NoneMm while None)
    mm,           \* the local `mm` of the current iteration
    stop_event,   \* threading.Event: is_set()
    remaining,    \* bounded_sleep: time left until `end`, in 10 ms units
    sleep_ret,    \* bounded_sleep: where run() continues after the wait
    steer,        \* the local `steer` chosen for the turn
    turn_s,       \* the duration drawn by random.uniform for the turn
    tickCmds,     \* history: actuator commands issued in this loop iteration
    tickReads,    \* history: sensor reads made in this loop iteration
    tickMm,       \* history: the distance read in this loop iteration, if any
    lastCmd,      \* history: the actuator command issued (or attempted) last
    lastBeat,     \* history: arguments of the last heartbeat() call
    lastStatus,   \* history: the last dict handed to on_status
    sawStop,      \* history: a bounded_sleep has observed stop_event set
    driveAfterStop, \* history: a drive command was issued after sawStop
    failStreak,   \* history: consecutive failed sensor reads (saturating)
    acfg,         \* self._cfg: the AutoAvoidConfig given to the constructor
    \* ---- teleop_web: the command record, its lock and the clock ----
    state_lock,   \* _state_lock: "none", or the kind of thread holding it
    last_cmd_ts,  \* _last_cmd_ts (0 until a command is recorded)
    last_throttle, \* _last_throttle
    last_steering, \* _last_steering
    rec_by,       \* history: the request that wrote each of the three fields
    now,          \* time.time(), in ticks of 50 ms
    \* ---- teleop_web: the request threads (one per request) ----
    hpc,          \* [request -> position of api_drive / api_stop]
    hcmd,         \* [request -> the command of the request]
    hidx,         \* [request -> index of the next device write of its call]
    \* ---- teleop_web: api_status ----
    spc,          \* position of the api_status request thread
    s_ts,         \* the _last_cmd_ts the query read (behind its age)
    s_age,        \* the local `age` (NoneAge while None)
    s_throttle,   \* the throttle the query read
    s_steering,   \* the steering the query read
    s_by,         \* history: the writers of the three fields the query read
    \* ---- teleop_web: _deadman_loop ----
    wpc,          \* position of the watchdog thread
    wts,          \* the local `ts`
    wake,         \* the time at which time.sleep(0.05) ends
    widx,         \* index of the next device write of its stop()
    wdStopAt,     \* history: the time of the watchdog's last stop() call
    \* ---- a single-threaded caller of a MotorController ----
    mk,           \* the controller's max_pwm, left_mult, right_mult
    mcmd,         \* the call in progress, or the last one completed
    midx          \* index of the next device write of the call (0: no call)

avoidVars == <<apc, obstacle, last_mm, mm, stop_event, remaining, sleep_ret,
               steer, turn_s, tickCmds, tickReads, tickMm, lastCmd,
               lastBeat, lastStatus, sawStop, driveAfterStop, failStreak, acfg>>
motorVars == <<pwm, in1, in2, stby>>
recordVars == <<state_lock, last_cmd_ts, last_throttle, last_steering, rec_by>>
handlerVars == <<hpc, hcmd, hidx>>
statusVars == <<spc, s_ts, s_age, s_throttle, s_steering, s_by>>
watchdogVars == <<wpc, wts, wake, widx, wdStopAt>>
teleopVars == <<recordVars, now, handlerVars, statusVars, watchdogVars>>
callerVars == <<mk, mcmd, midx>>

----------------------------------------------------------------------------
(* Exact rationals.                                                         *)

RECURSIVE GCD(_, _)
GCD(a, b) == IF b = 0 THEN a ELSE GCD(b, a % b)

IAbs(x) == IF x < 0 THEN -x ELSE x

\* The rational n/d (d # 0) in lowest terms with a positive denominator.
Rat(n, d) ==
    LET g == GCD(IAbs(n), IAbs(d))
        s == IF d < 0 THEN -1 ELSE 1
    IN  <<(s * n) \div g, (s * d) \div g>>

RZero == <<0, 1>>
ROne  == <<1, 1>>
RNeg(a)    == <<-a[1], a[2]>>
RAbs(a)    == <<IAbs(a[1]), a[2]>>
RAdd(a, b) == Rat(a[1] * b[2] + b[1] * a[2], a[2] * b[2])
RSub(a, b) == RAdd(a, RNeg(b))
RMul(a, b) == Rat(a[1] * b[1], a[2] * b[2])
RDiv(a, b) == Rat(a[1] * b[2], a[2] * b[1])
RLt(a, b)  == a[1] * b[2] < b[1] * a[2]
RLe(a, b)  == a[1] * b[2] <= b[1] * a[2]
RMax(a, b) == IF RLt(a, b) THEN b ELSE a

----------------------------------------------------------------------------
(* AutoAvoidConfig: the defaults of the dataclass.  Speeds are rationals,   *)
(* distances are millimetres, durations are in units of 10 ms.              *)

fwd_speed  == <<11, 50>>
back_speed == <<9, 50>>
turn_steer == <<11, 20>>
clear_mm   == 350
near_mm    == 220
back_s     == 40
turn_s_min == 35
turn_s_max == 70

\* AutoAvoidConfig(): every field at its default.
DefaultConfig ==
    [fwd_speed |-> fwd_speed, back_speed |-> back_speed, turn_steer |-> turn_steer,
     clear_mm |-> clear_mm, near_mm |-> near_mm, back_s |-> back_s,
     turn_s_min |-> turn_s_min, turn_s_max |-> turn_s_max]

\* Configurations a caller (or the AUTO_* environment variables read by
\* from_env) can hand to AutoAvoidRunner: the defaults, and the defaults with
\* one field changed: near_mm above clear_mm, near_mm zero, a forward speed
\* above 1, a negative back-up time, turn_s_min above turn_s_max.
AvoidConfigs ==
    { DefaultConfig,
      [DefaultConfig EXCEPT !.near_mm = 400],
      [DefaultConfig EXCEPT !.near_mm = 0],
      [DefaultConfig EXCEPT !.fwd_speed = <<3, 2>>],
      [DefaultConfig EXCEPT !.back_s = -10],
      [DefaultConfig EXCEPT !.turn_s_min = 70, !.turn_s_max = 35] }

----------------------------------------------------------------------------
(* MotorController                                                          *)

Sides == {"left", "right"}

\* Calibration of the controller instance (MotorController.__init__).
left_mult  == <<1, 1>>
right_mult == <<87, 100>>
max_pwm    == <<3, 5>>

Mult(side) == IF side = "left" THEN left_mult ELSE right_mult

\* _clamp without the upper limit.
Clamp_NoUpper(v, lo, hi) == IF RLt(v, lo) THEN lo ELSE v

\* _clamp(v, lo, hi)
Clamp(v, lo, hi) == IF RLt(v, lo) THEN lo ELSE IF RLt(hi, v) THEN hi ELSE v

\* One write to an output device.
W(dev, side, val) == [dev |-> dev, side |-> side, val |-> val]

\* stop() leaving the right motor's outputs alone.
StopWrites_LeftOnly ==
    << W("pwm", "left", RZero), W("in1", "left", FALSE), W("in2", "left", FALSE),
       W("pwm", "left", RZero), W("in1", "left", FALSE), W("in2", "left", FALSE) >>

\* stop(): the six writes, in program order.
StopWrites ==
    << W("pwm", "left", RZero),  W("in1", "left", FALSE),  W("in2", "left", FALSE),
       W("pwm", "right", RZero), W("in1", "right", FALSE), W("in2", "right", FALSE) >>

\* The calibration and the duty-cycle limit of a controller instance.
Controller ==
    [max_pwm |-> max_pwm, left_mult |-> left_mult, right_mult |-> right_mult]

\* _apply_motor(pwm, in1, in2, value) of a controller k: the three writes, in
\* program order.
ApplyMotor(k, side, value) ==
    LET v == Clamp(value, RNeg(k.max_pwm), k.max_pwm)
    IN  IF RLt(RZero, v)
        THEN << W("in1", side, TRUE),  W("in2", side, FALSE), W("pwm", side, v) >>
        ELSE IF RLt(v, RZero)
        THEN << W("in1", side, FALSE), W("in2", side, TRUE),  W("pwm", side, RNeg(v)) >>
        ELSE << W("pwm", side, RZero), W("in1", side, FALSE), W("in2", side, FALSE) >>

ApplyMotorWrites(side, value) == ApplyMotor(Controller, side, value)

\* Mix with mag = max(abs(left), abs(right)), without the floor of 1.0.
Mix_NoFloor(throttle, steering) ==
    LET t   == Clamp(throttle, RNeg(ROne), ROne)
        s   == Clamp(steering, RNeg(ROne), ROne)
        l   == RAdd(t, s)
        r   == RSub(t, s)
        mag == RMax(RAbs(l), RAbs(r))
    IN  IF mag = RZero
        THEN [left |-> RZero, right |-> RZero]
        ELSE [left |-> RDiv(l, mag), right |-> RDiv(r, mag)]

\* Mix with right = steering - throttle.
Mix_RightSwapped(throttle, steering) ==
    LET t   == Clamp(throttle, RNeg(ROne), ROne)
        s   == Clamp(steering, RNeg(ROne), ROne)
        l   == RAdd(t, s)
        r   == RSub(s, t)
        mag == RMax(RMax(RAbs(l), RAbs(r)), ROne)
    IN  [left |-> RDiv(l, mag), right |-> RDiv(r, mag)]

\* Mix without the division by mag (lines 109-111).
Mix_NoNormalize(throttle, steering) ==
    LET t   == Clamp(throttle, RNeg(ROne), ROne)
        s   == Clamp(steering, RNeg(ROne), ROne)
    IN  [left |-> RAdd(t, s), right |-> RSub(t, s)]

\* drive_arcade, lines 103-111: the wheel values before calibration.
Mix(throttle, steering) ==
    LET t   == Clamp(throttle, RNeg(ROne), ROne)
        s   == Clamp(steering, RNeg(ROne), ROne)
        l   == RAdd(t, s)
        r   == RSub(t, s)
        mag == RMax(RMax(RAbs(l), RAbs(r)), ROne)
    IN  [left |-> RDiv(l, mag), right |-> RDiv(r, mag)]

\* drive_arcade(throttle, steering) of a controller k: the six writes, in
\* program order.
DriveArcade(k, throttle, steering) ==
    LET m == Mix(throttle, steering)
    IN  ApplyMotor(k, "left",  RMul(m.left,  k.left_mult))
        \o ApplyMotor(k, "right", RMul(m.right, k.right_mult))

DriveArcadeWrites(throttle, steering) == DriveArcade(Controller, throttle, steering)

\* An actuator command: stop() or drive_arcade(t, s).
CmdStop        == [op |-> "stop", t |-> RZero, s |-> RZero]
CmdDrive(t, s) == [op |-> "drive", t |-> t, s |-> s]

CmdWrites(c) == IF c.op = "stop" THEN StopWrites ELSE DriveArcadeWrites(c.t, c.s)

\* The commands the callers of the controller issue: the avoidance loop's
\* (run(), lines 140-191).
AvoidCommands ==
    {CmdStop} \cup
    UNION { { CmdDrive(k.fwd_speed, RZero),
              CmdDrive(RNeg(k.back_speed), RZero),
              CmdDrive(RZero, k.turn_steer),
              CmdDrive(RZero, RNeg(k.turn_steer)) } : k \in AvoidConfigs }

\* The commands the request handlers issue: api_drive with each modelled
\* input (full forward), and api_stop.
TeleopInputs == { <<ROne, RZero>> }

TeleopCommands == {CmdStop} \cup {CmdDrive(i[1], i[2]) : i \in TeleopInputs}

Commands == AvoidCommands \cup TeleopCommands

\* The writes of each command, computed once.
WritesOf == [c \in Commands |-> CmdWrites(c)]

\* The devices after one write / after the first k writes of a sequence.
PwmAfter(p, w) == IF w.dev = "pwm" THEN [p EXCEPT ![w.side] = w.val] ELSE p
In1After(p, w) == IF w.dev = "in1" THEN [p EXCEPT ![w.side] = w.val] ELSE p
In2After(p, w) == IF w.dev = "in2" THEN [p EXCEPT ![w.side] = w.val] ELSE p

RECURSIVE PwmFold(_, _, _)
PwmFold(p, ws, k) == IF k = 0 THEN p ELSE PwmAfter(PwmFold(p, ws, k - 1), ws[k])
RECURSIVE In1Fold(_, _, _)
In1Fold(p, ws, k) == IF k = 0 THEN p ELSE In1After(In1Fold(p, ws, k - 1), ws[k])
RECURSIVE In2Fold(_, _, _)
In2Fold(p, ws, k) == IF k = 0 THEN p ELSE In2After(In2Fold(p, ws, k - 1), ws[k])

\* Write number i of command c reaches its device.
WriteOne(c, i) ==
    /\ pwm' = PwmAfter(pwm, WritesOf[c][i])
    /\ in1' = In1After(in1, WritesOf[c][i])
    /\ in2' = In2After(in2, WritesOf[c][i])
    /\ UNCHANGED stby

\* The first k writes of command c reach the devices.
ApplyWrites(c, k) ==
    /\ pwm' = PwmFold(pwm, WritesOf[c], k)
    /\ in1' = In1Fold(in1, WritesOf[c], k)
    /\ in2' = In2Fold(in2, WritesOf[c], k)
    /\ UNCHANGED stby

\* The devices are in the state stop() leaves.
Stopped ==
    \A sd \in Sides : pwm[sd] = RZero /\ ~in1[sd] /\ ~in2[sd]

\* MotorController.__init__: enable() then stop().
MotorInit ==
    /\ pwm  = [sd \in Sides |-> RZero]
    /\ in1  = [sd \in Sides |-> FALSE]
    /\ in2  = [sd \in Sides |-> FALSE]
    /\ stby = TRUE

----------------------------------------------------------------------------
(* AutoAvoidRunner.run                                                      *)

\* The settle pauses and the sensor-error backoff of run(), and the slice of
\* bounded_sleep (time.sleep(min(0.05, remaining))).
SettleS1   == 8
SettleS2   == 5
ErrorWaitS == 20
SliceS     == 5

\* last_mm = None
NoneMm == -1

\* Consecutive failed sensor reads counted (the count saturates here).
MaxFailStreak == 3

\* Readings the sensor can return: below, at and just above near_mm, just
\* below, at and above clear_mm.
Distances == {100, near_mm, near_mm + 1, clear_mm - 1, clear_mm, 500}

\* Values random.uniform(a, b) can return: a + (b - a) * random(), here the
\* two ends and the middle.
UniformValues(a, b) == {a, a + (b - a) \div 2, b}

\* Durations random.uniform(turn_s_min, turn_s_max) can return.
TurnDurations == UniformValues(turn_s_min, turn_s_max)

CmdNone == [op |-> "none", t |-> RZero, s |-> RZero]
NoBeat  == <<>>
NoStatus == <<>>

IsMotion(c) == c.op = "drive" /\ (c.t # RZero \/ c.s # RZero)

\* self._controller.<c>() returns normally: all six writes reach the devices.
Issue(c) ==
    /\ ApplyWrites(c, 6)
    /\ tickCmds' = Append(tickCmds, c)
    /\ lastCmd' = c
    /\ driveAfterStop' = (driveAfterStop \/ (sawStop /\ IsMotion(c)))

\* beat(throttle, steering)
Beat(t, s) == lastBeat' = <<t, s>>

\* bounded_sleep(total_s) is entered: end = now + max(0, total_s).
EnterSleep(total, ret) ==
    /\ remaining' = IF total < 0 THEN 0 ELSE total
    /\ sleep_ret' = ret
    /\ apc' = "sleep"

\* The positions of run() that belong to the recovery sequence.
RecoveryPcs == {"rec_stop1", "rec_back", "rec_turn", "rec_stop2", "rec_clear"}

\* AutoAvoidRunner(controller, cfg=k) has been constructed (lines 115-118:
\* self._cfg = cfg) and run() is entered.
AvoidInitWith(k) ==
    /\ apc = "start"
    /\ obstacle = FALSE
    /\ last_mm = NoneMm
    /\ mm = NoneMm
    /\ stop_event = FALSE
    /\ remaining = 0
    /\ sleep_ret = "loop"
    /\ steer = RZero
    /\ turn_s = 0
    /\ tickCmds = <<>>
    /\ tickReads = 0
    /\ tickMm = NoneMm
    /\ lastCmd = CmdNone
    /\ lastBeat = NoBeat
    /\ lastStatus = NoStatus
    /\ sawStop = FALSE
    /\ driveAfterStop = FALSE
    /\ failStreak = 0
    /\ acfg = k

AvoidInit == AvoidInitWith(DefaultConfig)

\* lines 140-141: stop() and the first heartbeat, before the loop.
AvInitStop ==
    /\ apc = "start"
    /\ Issue(CmdStop)
    /\ Beat(RZero, RZero)
    /\ apc' = "loop"
    /\ UNCHANGED <<obstacle, last_mm, mm, stop_event, remaining, sleep_ret,
                   steer, turn_s, tickReads, tickMm, lastStatus, sawStop>>
    /\ UNCHANGED <<failStreak, acfg>>
    /\ UNCHANGED teleopVars
    /\ UNCHANGED callerVars

\* line 143: while not stop_event.is_set().  A loop iteration (tick) starts
\* here, or the loop is left.
AvLoopCheck ==
    /\ apc = "loop"
    /\ apc' = IF stop_event THEN "final" ELSE "read"
    /\ tickCmds' = <<>>
    /\ tickReads' = 0
    /\ tickMm' = NoneMm
    /\ UNCHANGED <<obstacle, last_mm, mm, stop_event, remaining, sleep_ret,
                   steer, turn_s, lastCmd, lastBeat, lastStatus, sawStop,
                   driveAfterStop>>
    /\ UNCHANGED motorVars
    /\ UNCHANGED <<failStreak, acfg>>
    /\ UNCHANGED teleopVars
    /\ UNCHANGED callerVars

\* Evaluate with the clear threshold compared strictly (d > clear_mm).
Evaluate_StrictClear(d) ==
    /\ lastStatus' = <<d, IF ~obstacle THEN "forward" ELSE "avoid">>
    /\ obstacle' = (obstacle \/ d <= acfg.near_mm)
    /\ apc' = IF ~obstacle' /\ d > acfg.clear_mm THEN "fwd_drive" ELSE "rec_stop1"

\* lines 155-161 with a reading d: the status report, the sticky flag, and
\* the branch between driving forward and the obstacle handling.
Evaluate(d) ==
    /\ lastStatus' = <<d, IF ~obstacle THEN "forward" ELSE "avoid">>
    /\ obstacle' = (obstacle \/ d <= acfg.near_mm)
    /\ apc' = IF ~obstacle' /\ d >= acfg.clear_mm THEN "fwd_drive" ELSE "rec_stop1"

\* lines 145-146: the sensor read returns a distance.
AvReadOk ==
    /\ apc = "read"
    /\ \E d \in Distances :
        /\ mm' = d
        /\ last_mm' = d
        /\ tickMm' = d
        /\ Evaluate(d)
    /\ tickReads' = tickReads + 1
    /\ UNCHANGED <<stop_event, remaining, sleep_ret, steer, turn_s, tickCmds,
                   lastCmd, lastBeat, sawStop, driveAfterStop>>
    /\ UNCHANGED motorVars
    /\ failStreak' = 0
    /\ UNCHANGED acfg
    /\ UNCHANGED teleopVars
    /\ UNCHANGED callerVars

\* lines 145-147: the sensor read raises.
AvReadFail ==
    /\ apc = "read"
    /\ apc' = "err_stop"
    /\ tickReads' = tickReads + 1
    /\ UNCHANGED tickMm
    /\ UNCHANGED <<obstacle, last_mm, mm, stop_event, remaining, sleep_ret,
                   steer, turn_s, tickCmds, lastCmd, lastBeat, lastStatus,
                   sawStop, driveAfterStop>>
    /\ UNCHANGED motorVars
    /\ failStreak' = IF failStreak < MaxFailStreak THEN failStreak + 1 ELSE failStreak
    /\ UNCHANGED acfg
    /\ UNCHANGED teleopVars
    /\ UNCHANGED callerVars

\* AvErrStop giving up after a failed read: the loop is left.
AvErrStop_GiveUp ==
    /\ apc = "err_stop"
    /\ Issue(CmdStop)
    /\ lastStatus' = <<last_mm, "sensor_error">>
    /\ apc' = "final"
    /\ UNCHANGED <<obstacle, last_mm, mm, stop_event, remaining, sleep_ret,
                   steer, turn_s, tickReads, tickMm, lastBeat, sawStop>>
    /\ UNCHANGED <<failStreak, acfg>>
    /\ UNCHANGED teleopVars
    /\ UNCHANGED callerVars

\* lines 149-153: stop, report sensor_error, back off, continue.
AvErrStop ==
    /\ apc = "err_stop"
    /\ Issue(CmdStop)
    /\ lastStatus' = <<last_mm, "sensor_error">>
    /\ EnterSleep(ErrorWaitS, "loop")
    /\ UNCHANGED <<obstacle, last_mm, mm, stop_event, steer, turn_s,
                   tickReads, tickMm, lastBeat, sawStop>>
    /\ UNCHANGED <<failStreak, acfg>>
    /\ UNCHANGED teleopVars
    /\ UNCHANGED callerVars

\* lines 163-164: clear path, drive forward.
AvFwdDrive ==
    /\ apc = "fwd_drive"
    /\ Issue(CmdDrive(acfg.fwd_speed, RZero))
    /\ Beat(acfg.fwd_speed, RZero)
    /\ apc' = "fwd_sleep"
    /\ UNCHANGED <<obstacle, last_mm, mm, stop_event, remaining, sleep_ret,
                   steer, turn_s, tickReads, tickMm, lastStatus, sawStop>>
    /\ UNCHANGED <<failStreak, acfg>>
    /\ UNCHANGED teleopVars
    /\ UNCHANGED callerVars

\* lines 165-166: time.sleep(period_s); continue.
AvFwdSleep ==
    /\ apc = "fwd_sleep"
    /\ apc' = "loop"
    /\ UNCHANGED <<obstacle, last_mm, mm, stop_event, remaining, sleep_ret,
                   steer, turn_s, tickCmds, tickReads, tickMm, lastCmd, lastBeat,
                   lastStatus, sawStop, driveAfterStop>>
    /\ UNCHANGED motorVars
    /\ UNCHANGED <<failStreak, acfg>>
    /\ UNCHANGED teleopVars
    /\ UNCHANGED callerVars

\* lines 169-171: stop and settle.
AvRecStop1 ==
    /\ apc = "rec_stop1"
    /\ Issue(CmdStop)
    /\ Beat(RZero, RZero)
    /\ EnterSleep(SettleS1, "rec_back")
    /\ UNCHANGED <<obstacle, last_mm, mm, stop_event, steer, turn_s,
                   tickReads, tickMm, lastStatus, sawStop>>
    /\ UNCHANGED <<failStreak, acfg>>
    /\ UNCHANGED teleopVars
    /\ UNCHANGED callerVars

\* lines 174-176: back up.
AvRecBack ==
    /\ apc = "rec_back"
    /\ Issue(CmdDrive(RNeg(acfg.back_speed), RZero))
    /\ Beat(RNeg(acfg.back_speed), RZero)
    /\ EnterSleep(acfg.back_s, "rec_turn")
    /\ UNCHANGED <<obstacle, last_mm, mm, stop_event, steer, turn_s,
                   tickReads, tickMm, lastStatus, sawStop>>
    /\ UNCHANGED <<failStreak, acfg>>
    /\ UNCHANGED teleopVars
    /\ UNCHANGED callerVars

\* lines 179-183: turn left or right, for a random duration.
AvRecTurn ==
    /\ apc = "rec_turn"
    /\ \E direction \in {-1, 1},
          dur \in UniformValues(acfg.turn_s_min, acfg.turn_s_max) :
        LET st == RMul(<<direction, 1>>, acfg.turn_steer) IN
        /\ steer' = st
        /\ turn_s' = dur
        /\ Issue(CmdDrive(RZero, st))
        /\ Beat(RZero, st)
        /\ EnterSleep(dur, "rec_stop2")
    /\ UNCHANGED <<obstacle, last_mm, mm, stop_event, tickReads, tickMm, lastStatus,
                   sawStop>>
    /\ UNCHANGED <<failStreak, acfg>>
    /\ UNCHANGED teleopVars
    /\ UNCHANGED callerVars

\* AvRecStop2 without the stop() of line 185.
AvRecStop2_NoStop ==
    /\ apc = "rec_stop2"
    /\ Beat(RZero, RZero)
    /\ EnterSleep(SettleS2, "rec_clear")
    /\ UNCHANGED <<obstacle, last_mm, mm, stop_event, steer, turn_s, tickCmds,
                   tickReads, tickMm, lastCmd, lastStatus, sawStop,
                   driveAfterStop>>
    /\ UNCHANGED motorVars
    /\ UNCHANGED <<failStreak, acfg>>
    /\ UNCHANGED teleopVars
    /\ UNCHANGED callerVars

\* lines 185-187: stop and settle.
AvRecStop2 ==
    /\ apc = "rec_stop2"
    /\ Issue(CmdStop)
    /\ Beat(RZero, RZero)
    /\ EnterSleep(SettleS2, "rec_clear")
    /\ UNCHANGED <<obstacle, last_mm, mm, stop_event, steer, turn_s,
                   tickReads, tickMm, lastStatus, sawStop>>
    /\ UNCHANGED <<failStreak, acfg>>
    /\ UNCHANGED teleopVars
    /\ UNCHANGED callerVars

\* AvRecClear without the assignment of line 189.
AvRecClear_KeepFlag ==
    /\ apc = "rec_clear"
    /\ UNCHANGED obstacle
    /\ apc' = "loop"
    /\ UNCHANGED <<last_mm, mm, stop_event, remaining, sleep_ret, steer,
                   turn_s, tickCmds, tickReads, tickMm, lastCmd, lastBeat, lastStatus,
                   sawStop, driveAfterStop>>
    /\ UNCHANGED motorVars
    /\ UNCHANGED <<failStreak, acfg>>
    /\ UNCHANGED teleopVars
    /\ UNCHANGED callerVars

\* line 189: obstacle = False.
AvRecClear ==
    /\ apc = "rec_clear"
    /\ obstacle' = FALSE
    /\ apc' = "loop"
    /\ UNCHANGED <<last_mm, mm, stop_event, remaining, sleep_ret, steer,
                   turn_s, tickCmds, tickReads, tickMm, lastCmd, lastBeat, lastStatus,
                   sawStop, driveAfterStop>>
    /\ UNCHANGED motorVars
    /\ UNCHANGED <<failStreak, acfg>>
    /\ UNCHANGED teleopVars
    /\ UNCHANGED callerVars

\* AvSleepStep polling the sensor in every slice of the wait.
AvSleepStep_Polling ==
    /\ apc = "sleep"
    /\ IF stop_event
       THEN /\ apc' = sleep_ret
            /\ sawStop' = (sawStop \/ sleep_ret \in RecoveryPcs)
            /\ UNCHANGED <<remaining, lastBeat, tickReads>>
       ELSE IF remaining <= 0
       THEN /\ apc' = sleep_ret
            /\ UNCHANGED <<remaining, lastBeat, sawStop, tickReads>>
       ELSE /\ remaining' = remaining - (IF SliceS < remaining THEN SliceS ELSE remaining)
            /\ Beat(RZero, RZero)
            /\ tickReads' = tickReads + 1
            /\ UNCHANGED <<apc, sawStop>>
    /\ UNCHANGED <<obstacle, last_mm, mm, stop_event, sleep_ret, steer, turn_s,
                   tickCmds, tickMm, lastCmd, lastStatus, driveAfterStop>>
    /\ UNCHANGED motorVars
    /\ UNCHANGED <<failStreak, acfg>>
    /\ UNCHANGED teleopVars
    /\ UNCHANGED callerVars

\* bounded_sleep, lines 130-135: one pass of its loop.  It returns when the
\* stop event is set or the time is up; otherwise it sleeps one slice and
\* sends a heartbeat.
AvSleepStep ==
    /\ apc = "sleep"
    /\ IF stop_event
       THEN /\ apc' = sleep_ret
            /\ sawStop' = (sawStop \/ sleep_ret \in RecoveryPcs)
            /\ UNCHANGED <<remaining, lastBeat>>
       ELSE IF remaining <= 0
       THEN /\ apc' = sleep_ret
            /\ UNCHANGED <<remaining, lastBeat, sawStop>>
       ELSE /\ remaining' = remaining - (IF SliceS < remaining THEN SliceS ELSE remaining)
            /\ Beat(RZero, RZero)
            /\ UNCHANGED <<apc, sawStop>>
    /\ UNCHANGED <<obstacle, last_mm, mm, stop_event, sleep_ret, steer, turn_s,
                   tickCmds, tickReads, tickMm, lastCmd, lastStatus, driveAfterStop>>
    /\ UNCHANGED motorVars
    /\ UNCHANGED <<failStreak, acfg>>
    /\ UNCHANGED teleopVars
    /\ UNCHANGED callerVars

\* AvFinalStop without the stop() of line 191.
AvFinalStop_NoStop ==
    /\ apc = "final"
    /\ Beat(RZero, RZero)
    /\ apc' = "returned"
    /\ UNCHANGED <<obstacle, last_mm, mm, stop_event, remaining, sleep_ret,
                   steer, turn_s, tickCmds, tickReads, tickMm, lastCmd,
                   lastStatus, sawStop, driveAfterStop>>
    /\ UNCHANGED motorVars
    /\ UNCHANGED <<failStreak, acfg>>
    /\ UNCHANGED teleopVars
    /\ UNCHANGED callerVars

\* lines 191-192: the stop after the loop; run() returns.
AvFinalStop ==
    /\ apc = "final"
    /\ Issue(CmdStop)
    /\ Beat(RZero, RZero)
    /\ apc' = "returned"
    /\ UNCHANGED <<obstacle, last_mm, mm, stop_event, remaining, sleep_ret,
                   steer, turn_s, tickReads, tickMm, lastStatus, sawStop>>
    /\ UNCHANGED <<failStreak, acfg>>
    /\ UNCHANGED teleopVars
    /\ UNCHANGED callerVars

\* The higher-level controller sets the stop event while run() is running.
SetStop ==
    /\ ~stop_event
    /\ apc \notin {"returned", "raised"}
    /\ stop_event' = TRUE
    /\ UNCHANGED <<apc, obstacle, last_mm, mm, remaining, sleep_ret, steer,
                   turn_s, tickCmds, tickReads, tickMm, lastCmd, lastBeat, lastStatus,
                   sawStop, driveAfterStop>>
    /\ UNCHANGED motorVars
    /\ UNCHANGED <<failStreak, acfg>>
    /\ UNCHANGED teleopVars
    /\ UNCHANGED callerVars

\* The steps of run() itself.
AvoidStep ==
    \/ AvInitStop
    \/ AvLoopCheck
    \/ AvReadOk
    \/ AvReadFail
    \/ AvErrStop
    \/ AvFwdDrive
    \/ AvFwdSleep
    \/ AvRecStop1
    \/ AvRecBack
    \/ AvRecTurn
    \/ AvRecStop2
    \/ AvRecClear
    \/ AvSleepStep
    \/ AvFinalStop

\* The command run() is about to issue at a position.
PendingCmds(pos) ==
    IF pos \in {"start", "err_stop", "rec_stop1", "rec_stop2", "final"}
    THEN {CmdStop}
    ELSE IF pos = "fwd_drive" THEN {CmdDrive(acfg.fwd_speed, RZero)}
    ELSE IF pos = "rec_back" THEN {CmdDrive(RNeg(acfg.back_speed), RZero)}
    ELSE IF pos = "rec_turn"
    THEN {CmdDrive(RZero, acfg.turn_steer), CmdDrive(RZero, RNeg(acfg.turn_steer))}
    ELSE {}

\* A hardware write of the pending command raises after k of its writes:
\* nothing in run() catches it (the try of lines 144-153 covers only the
\* sensor read), so the exception leaves run().
AvWriteFault ==
    /\ \E c \in PendingCmds(apc), k \in 0..5 :
        /\ ApplyWrites(c, k)
        /\ lastCmd' = c
    /\ apc' = "raised"
    /\ UNCHANGED <<obstacle, last_mm, mm, stop_event, remaining, sleep_ret,
                   steer, turn_s, tickCmds, tickReads, tickMm, lastBeat,
                   lastStatus, sawStop, driveAfterStop>>
    /\ UNCHANGED <<failStreak, acfg>>
    /\ UNCHANGED teleopVars
    /\ UNCHANGED callerVars

----------------------------------------------------------------------------
(* teleop_web: the command record, the request threads and the watchdog.    *)
(*                                                                          *)
(* Time.  `now` counts ticks of 50 ms.  The watchdog's iteration (wake up,  *)
(* read, compare, stop) takes no measurable time: the clock advances only   *)
(* while the watchdog sleeps.  Request threads may be delayed arbitrarily.  *)
(* The clock is tracked up to MaxTime and, beyond it, for as long as the    *)
(* last recorded command has not been expired for a full watchdog period;   *)
(* after that only the order of events matters and the watchdog's sleeps    *)
(* end without the clock value changing.                                    *)

\* DEADMAN_S = 0.35 s and the watchdog's time.sleep(0.05), in ticks.
DEADMAN_S      == 7
WatchdogPeriod == 1

\* The value of time.time() when the server starts: seconds since the epoch,
\* positive and far beyond DEADMAN_S.
StartTime == 10

\* Requests served (Flask runs each in a thread of its own), and the ticks
\* after StartTime for which the clock is tracked unconditionally.
MaxReqs == 2
TrackedTicks == 2

MaxTime == StartTime + TrackedTicks

Requests == 1..MaxReqs

\* age = None
NoneAge == -1

TeleopInit ==
    /\ state_lock = "none"
    /\ last_cmd_ts = 0
    /\ last_throttle = RZero
    /\ last_steering = RZero
    /\ rec_by = <<0, 0, 0>>
    /\ now = StartTime
    /\ hpc = [r \in Requests |-> "new"]
    /\ hcmd = [r \in Requests |-> CmdStop]
    /\ hidx = [r \in Requests |-> 0]
    /\ spc = "idle"
    /\ s_ts = 0
    /\ s_age = NoneAge
    /\ s_throttle = RZero
    /\ s_steering = RZero
    /\ s_by = <<0, 0, 0>>
    /\ wpc = "sleep"
    /\ wts = 0
    /\ wake = StartTime + WatchdogPeriod
    /\ widx = 0
    /\ wdStopAt = 0

\* The clock is still tracked.
ClockRuns ==
    \/ now < MaxTime
    \/ last_cmd_ts # 0 /\ now <= last_cmd_ts + DEADMAN_S + WatchdogPeriod

\* Time passes: one tick.
Tick ==
    /\ wpc = "sleep"
    /\ now < wake
    /\ ClockRuns
    /\ now' = now + 1
    /\ UNCHANGED <<recordVars, handlerVars, statusVars, watchdogVars>>
    /\ UNCHANGED motorVars
    /\ UNCHANGED avoidVars
    /\ UNCHANGED callerVars

\* ReqRecordTs storing a time.time() sampled before the lock was taken.
ReqRecordTs_SampledBefore(r) ==
    /\ hpc[r] = "new"
    /\ IF r = 1 THEN TRUE ELSE hpc[r - 1] # "new"
    /\ state_lock = "none"
    /\ \E c \in TeleopCommands : hcmd' = [hcmd EXCEPT ![r] = c]
    /\ state_lock' = "request"
    /\ \E t \in StartTime..now : last_cmd_ts' = t
    /\ rec_by' = [rec_by EXCEPT ![1] = r]
    /\ hpc' = [hpc EXCEPT ![r] = "w_throttle"]
    /\ UNCHANGED <<last_throttle, last_steering, now, hidx, statusVars,
                   watchdogVars>>
    /\ UNCHANGED motorVars
    /\ UNCHANGED avoidVars
    /\ UNCHANGED callerVars

\* A request is served: POST /api/drive with a throttle and a steering
\* (lines 400-407) or POST /api/stop (lines 419-422); lines 410-411 /
\* 424-425: the lock is taken and the timestamp stored.
ReqRecordTs(r) ==
    /\ hpc[r] = "new"
    /\ IF r = 1 THEN TRUE ELSE hpc[r - 1] # "new"
    /\ state_lock = "none"
    /\ \E c \in TeleopCommands : hcmd' = [hcmd EXCEPT ![r] = c]
    /\ state_lock' = "request"
    /\ last_cmd_ts' = now
    /\ rec_by' = [rec_by EXCEPT ![1] = r]
    /\ hpc' = [hpc EXCEPT ![r] = "w_throttle"]
    /\ UNCHANGED <<last_throttle, last_steering, now, hidx, statusVars,
                   watchdogVars>>
    /\ UNCHANGED motorVars
    /\ UNCHANGED avoidVars
    /\ UNCHANGED callerVars

\* line 412 / 426
ReqRecordThrottle(r) ==
    /\ hpc[r] = "w_throttle"
    /\ last_throttle' = hcmd[r].t
    /\ rec_by' = [rec_by EXCEPT ![2] = r]
    /\ hpc' = [hpc EXCEPT ![r] = "w_steering"]
    /\ UNCHANGED <<state_lock, last_cmd_ts, last_steering, now, hcmd, hidx,
                   statusVars, watchdogVars>>
    /\ UNCHANGED motorVars
    /\ UNCHANGED avoidVars
    /\ UNCHANGED callerVars

\* ReqRecordSteering leaving the with block without releasing the lock.
ReqRecordSteering_KeepLock(r) ==
    /\ hpc[r] = "w_steering"
    /\ last_steering' = hcmd[r].s
    /\ rec_by' = [rec_by EXCEPT ![3] = r]
    /\ UNCHANGED state_lock
    /\ hpc' = [hpc EXCEPT ![r] = "act"]
    /\ hidx' = [hidx EXCEPT ![r] = 1]
    /\ UNCHANGED <<last_cmd_ts, last_throttle, now, hcmd, statusVars,
                   watchdogVars>>
    /\ UNCHANGED motorVars
    /\ UNCHANGED avoidVars
    /\ UNCHANGED callerVars

\* line 413 / 427, and the lock is released on leaving the with block.
ReqRecordSteering(r) ==
    /\ hpc[r] = "w_steering"
    /\ last_steering' = hcmd[r].s
    /\ rec_by' = [rec_by EXCEPT ![3] = r]
    /\ state_lock' = "none"
    /\ hpc' = [hpc EXCEPT ![r] = "act"]
    /\ hidx' = [hidx EXCEPT ![r] = 1]
    /\ UNCHANGED <<last_cmd_ts, last_throttle, now, hcmd, statusVars,
                   watchdogVars>>
    /\ UNCHANGED motorVars
    /\ UNCHANGED avoidVars
    /\ UNCHANGED callerVars

\* line 415 / 428: controller.drive_arcade(throttle, steering) or
\* controller.stop(), one device write at a time, outside the lock.
ReqWrite(r) ==
    /\ hpc[r] = "act"
    /\ WriteOne(hcmd[r], hidx[r])
    /\ IF hidx[r] = 6
       THEN /\ hpc' = [hpc EXCEPT ![r] = "done"]
            /\ hidx' = [hidx EXCEPT ![r] = 0]
       ELSE /\ hidx' = [hidx EXCEPT ![r] = hidx[r] + 1]
            /\ UNCHANGED hpc
    /\ UNCHANGED <<recordVars, now, hcmd, statusVars, watchdogVars>>
    /\ UNCHANGED avoidVars
    /\ UNCHANGED callerVars

\* StatusAge reading the record without taking the lock.
StatusAge_NoLock ==
    /\ spc = "idle"
    /\ UNCHANGED state_lock
    /\ s_ts' = last_cmd_ts
    /\ s_by' = [s_by EXCEPT ![1] = rec_by[1]]
    /\ s_age' = IF last_cmd_ts # 0 THEN now - last_cmd_ts ELSE NoneAge
    /\ spc' = "r_throttle"
    /\ UNCHANGED <<last_cmd_ts, last_throttle, last_steering, rec_by, now, handlerVars,
                   s_throttle, s_steering, watchdogVars>>
    /\ UNCHANGED motorVars
    /\ UNCHANGED avoidVars
    /\ UNCHANGED callerVars

\* api_status, lines 434-435: the lock is taken and the age computed.
StatusAge ==
    /\ spc = "idle"
    /\ state_lock = "none"
    /\ state_lock' = "status"
    /\ s_ts' = last_cmd_ts
    /\ s_by' = [s_by EXCEPT ![1] = rec_by[1]]
    /\ s_age' = IF last_cmd_ts # 0 THEN now - last_cmd_ts ELSE NoneAge
    /\ spc' = "r_throttle"
    /\ UNCHANGED <<last_cmd_ts, last_throttle, last_steering, rec_by, now, handlerVars,
                   s_throttle, s_steering, watchdogVars>>
    /\ UNCHANGED motorVars
    /\ UNCHANGED avoidVars
    /\ UNCHANGED callerVars

\* line 439
StatusThrottle ==
    /\ spc = "r_throttle"
    /\ s_throttle' = last_throttle
    /\ s_by' = [s_by EXCEPT ![2] = rec_by[2]]
    /\ spc' = "r_steering"
    /\ UNCHANGED <<recordVars, now, handlerVars, s_ts, s_age, s_steering,
                   watchdogVars>>
    /\ UNCHANGED motorVars
    /\ UNCHANGED avoidVars
    /\ UNCHANGED callerVars

\* line 440, and the lock is released on leaving the with block: the
\* response (s_age, s_throttle, s_steering) is ready.
StatusSteering ==
    /\ spc = "r_steering"
    /\ s_steering' = last_steering
    /\ s_by' = [s_by EXCEPT ![3] = rec_by[3]]
    /\ state_lock' = "none"
    /\ spc' = "respond"
    /\ UNCHANGED <<last_cmd_ts, last_throttle, last_steering, rec_by, now, handlerVars,
                   s_ts, s_age, s_throttle, watchdogVars>>
    /\ UNCHANGED motorVars
    /\ UNCHANGED avoidVars
    /\ UNCHANGED callerVars

\* The response is sent; the thread and its locals are gone.
StatusRespond ==
    /\ spc = "respond"
    /\ spc' = "idle"
    /\ s_ts' = 0
    /\ s_age' = NoneAge
    /\ s_throttle' = RZero
    /\ s_steering' = RZero
    /\ s_by' = <<0, 0, 0>>
    /\ UNCHANGED <<recordVars, now, handlerVars, watchdogVars>>
    /\ UNCHANGED motorVars
    /\ UNCHANGED avoidVars
    /\ UNCHANGED callerVars

\* lines 450-452: time.sleep(0.05) ends and ts = _last_cmd_ts is read under
\* the lock.
WdRead ==
    /\ wpc = "sleep"
    /\ IF now >= wake THEN TRUE ELSE ~ClockRuns
    /\ state_lock = "none"
    /\ wts' = last_cmd_ts
    /\ wpc' = "check"
    /\ UNCHANGED <<recordVars, now, handlerVars, statusVars, wake, widx,
                   wdStopAt>>
    /\ UNCHANGED motorVars
    /\ UNCHANGED avoidVars
    /\ UNCHANGED callerVars

\* WdSleep with a sleep one tick longer than the watchdog period.
WdSleep_Long ==
    /\ wpc' = "sleep"
    /\ wake' = now + WatchdogPeriod + 1
    /\ wts' = 0

\* The watchdog goes back to time.sleep(0.05); its local ts is dead.
WdSleep ==
    /\ wpc' = "sleep"
    /\ wake' = now + WatchdogPeriod
    /\ wts' = 0

\* Expired with the operands of the subtraction exchanged.
Expired_Reversed(ts) == ts - now > DEADMAN_S

\* The deadman condition of line 455.
Expired(ts) == now - ts > DEADMAN_S

\* WdCheck without the test of lines 453-454 (if not ts: continue).
WdCheck_NoNoneTest ==
    /\ wpc = "check"
    /\ IF Expired(wts)
       THEN /\ wpc' = "stop"
            /\ widx' = 1
            /\ wdStopAt' = now
            /\ UNCHANGED <<wake, wts>>
       ELSE WdSleep /\ UNCHANGED <<widx, wdStopAt>>
    /\ UNCHANGED <<recordVars, now, handlerVars, statusVars>>
    /\ UNCHANGED motorVars
    /\ UNCHANGED avoidVars
    /\ UNCHANGED callerVars

\* lines 453-456: no command yet, or a fresh one: sleep again; a stale one:
\* controller.stop() is called.
WdCheck ==
    /\ wpc = "check"
    /\ IF wts = 0
       THEN WdSleep /\ UNCHANGED <<widx, wdStopAt>>
       ELSE IF Expired(wts)
       THEN /\ wpc' = "stop"
            /\ widx' = 1
            /\ wdStopAt' = now
            /\ UNCHANGED <<wake, wts>>
       ELSE WdSleep /\ UNCHANGED <<widx, wdStopAt>>
    /\ UNCHANGED <<recordVars, now, handlerVars, statusVars>>
    /\ UNCHANGED motorVars
    /\ UNCHANGED avoidVars
    /\ UNCHANGED callerVars

\* line 456: controller.stop(), one device write at a time.
WdStopWrite ==
    /\ wpc = "stop"
    /\ WriteOne(CmdStop, widx)
    /\ IF widx = 6
       THEN WdSleep /\ widx' = 0
       ELSE widx' = widx + 1 /\ UNCHANGED <<wpc, wake, wts>>
    /\ UNCHANGED <<recordVars, now, handlerVars, statusVars, wdStopAt>>
    /\ UNCHANGED avoidVars
    /\ UNCHANGED callerVars

\* line 415 / 428 as one step: the whole controller call of the handler.
ReqCall(r) ==
    /\ hpc[r] = "act"
    /\ ApplyWrites(hcmd[r], 6)
    /\ hpc' = [hpc EXCEPT ![r] = "done"]
    /\ hidx' = [hidx EXCEPT ![r] = 0]
    /\ UNCHANGED <<recordVars, now, hcmd, statusVars, watchdogVars>>
    /\ UNCHANGED avoidVars
    /\ UNCHANGED callerVars

\* WdStopCall also zeroing the recorded throttle and steering.
WdStopCall_ResetRecord ==
    /\ wpc = "stop"
    /\ ApplyWrites(CmdStop, 6)
    /\ WdSleep
    /\ widx' = 0
    /\ last_throttle' = RZero
    /\ last_steering' = RZero
    /\ UNCHANGED <<state_lock, last_cmd_ts, rec_by, now, handlerVars,
                   statusVars, wdStopAt>>
    /\ UNCHANGED avoidVars
    /\ UNCHANGED callerVars

\* line 456 as one step: the whole controller.stop() of the watchdog.
WdStopCall ==
    /\ wpc = "stop"
    /\ ApplyWrites(CmdStop, 6)
    /\ WdSleep
    /\ widx' = 0
    /\ UNCHANGED <<recordVars, now, handlerVars, statusVars, wdStopAt>>
    /\ UNCHANGED avoidVars
    /\ UNCHANGED callerVars

RequestStep(r) ==
    \/ ReqRecordTs(r)
    \/ ReqRecordThrottle(r)
    \/ ReqRecordSteering(r)
    \/ ReqWrite(r)

StatusStep ==
    \/ StatusAge
    \/ StatusThrottle
    \/ StatusSteering
    \/ StatusRespond

WatchdogStep ==
    \/ WdRead
    \/ WdCheck
    \/ WdStopWrite

----------------------------------------------------------------------------
(* A MotorController used by one thread: calls of stop(), drive_arcade(),    *)
(* enable() and disable() one after the other, each call's device writes one *)
(* at a time, for controllers of several calibrations.                       *)

\* Controllers: the teleop server's (MAX_PWM 0.6, RIGHT_MULT 0.87), the
\* defaults with both multipliers 1 (max_pwm 1.0), and one with a small limit,
\* a multiplier above 1 and a negative one.
MotorConfigs ==
    { Controller,
      [max_pwm |-> ROne, left_mult |-> ROne, right_mult |-> ROne],
      [max_pwm |-> <<1, 4>>, left_mult |-> <<3, 2>>, right_mult |-> RNeg(ROne)] }

\* Throttle and steering inputs, inside and outside [-1, 1].
MotorInputValues == { <<-2, 1>>, <<-1, 2>>, RZero, ROne, <<2, 1>> }

MotorCommands ==
    {CmdStop} \cup {CmdDrive(t, s) : t \in MotorInputValues, s \in MotorInputValues}

\* The writes of each command on each controller, computed once.
MotorWritesOf ==
    [k \in MotorConfigs |->
        [c \in MotorCommands |->
            IF c.op = "stop" THEN StopWrites ELSE DriveArcade(k, c.t, c.s)]]

\* The constructor has run: its last call was stop().
CallerInit ==
    /\ mk = Controller
    /\ mcmd = CmdStop
    /\ midx = 0

\* stop() or drive_arcade(t, s) is called.
McCall ==
    /\ midx = 0
    /\ \E c \in MotorCommands : mcmd' = c
    /\ midx' = 1
    /\ UNCHANGED mk
    /\ UNCHANGED motorVars
    /\ UNCHANGED avoidVars
    /\ UNCHANGED teleopVars

\* The next device write of the call in progress; after the sixth the call
\* returns.
McWrite ==
    /\ midx >= 1
    /\ pwm' = PwmAfter(pwm, MotorWritesOf[mk][mcmd][midx])
    /\ in1' = In1After(in1, MotorWritesOf[mk][mcmd][midx])
    /\ in2' = In2After(in2, MotorWritesOf[mk][mcmd][midx])
    /\ midx' = IF midx = 6 THEN 0 ELSE midx + 1
    /\ UNCHANGED <<stby, mk, mcmd>>
    /\ UNCHANGED avoidVars
    /\ UNCHANGED teleopVars

\* enable(): self.stby.on()
McEnable ==
    /\ midx = 0
    /\ ~stby
    /\ stby' = TRUE
    /\ UNCHANGED <<pwm, in1, in2>>
    /\ UNCHANGED callerVars
    /\ UNCHANGED avoidVars
    /\ UNCHANGED teleopVars

\* disable(): self.stby.off()
McDisable ==
    /\ midx = 0
    /\ stby
    /\ stby' = FALSE
    /\ UNCHANGED <<pwm, in1, in2>>
    /\ UNCHANGED callerVars
    /\ UNCHANGED avoidVars
    /\ UNCHANGED teleopVars

----------------------------------------------------------------------------
vars == <<motorVars, avoidVars, teleopVars, callerVars>>

Init == MotorInit /\ AvoidInit /\ TeleopInit /\ CallerInit

\* A controller of any of the modelled calibrations has been constructed.
InitMotor ==
    /\ MotorInit /\ AvoidInit /\ TeleopInit
    /\ mk \in MotorConfigs
    /\ mcmd = CmdStop
    /\ midx = 0

NextMotor == McCall \/ McWrite \/ McEnable \/ McDisable

\* A MotorController and its single caller.
SpecMotor == InitMotor /\ [][NextMotor]_vars

NextAvoid == AvoidStep \/ SetStop

\* The avoidance loop with a working actuator.
SpecAvoid == Init /\ [][NextAvoid]_vars

\* The same, with run() scheduled: it never stops taking steps while it can.
SpecAvoidLive == SpecAvoid /\ WF_vars(AvoidStep)

\* The runner has been constructed with any of the modelled configurations.
InitConfig ==
    /\ MotorInit /\ TeleopInit /\ CallerInit
    /\ \E k \in AvoidConfigs : AvoidInitWith(k)

\* The avoidance loop of a runner constructed with any configuration.
SpecAvoidConfig == InitConfig /\ [][NextAvoid]_vars

NextAvoidFault == AvoidStep \/ SetStop \/ AvWriteFault

\* The avoidance loop with an actuator whose writes can fail.
SpecAvoidFault == Init /\ [][NextAvoidFault]_vars

NextTeleop ==
    \/ \E r \in Requests : RequestStep(r)
    \/ StatusStep
    \/ WatchdogStep
    \/ Tick

NextDeadman ==
    \/ \E r \in Requests : RequestStep(r)
    \/ WatchdogStep
    \/ Tick

\* The teleop server without status queries.
SpecDeadman == Init /\ [][NextDeadman]_vars

\* A request that has recorded its command goes on to the end of its handler.
RequestFinish(r) ==
    \/ ReqRecordThrottle(r)
    \/ ReqRecordSteering(r)
    \/ ReqWrite(r)

\* The same, with the threads scheduled and time passing: the watchdog
\* thread and every handler that has started keep taking steps.
SpecDeadmanLive ==
    /\ SpecDeadman
    /\ WF_vars(Tick)
    /\ WF_vars(WatchdogStep)
    /\ \A r \in Requests : WF_vars(RequestFinish(r))

\* The teleop server: request threads, status queries and the watchdog.
SpecTeleop == Init /\ [][NextTeleop]_vars

NextStatus ==
    \/ \E r \in Requests :
        \/ ReqRecordTs(r)
        \/ ReqRecordThrottle(r)
        \/ ReqRecordSteering(r)
        \/ ReqCall(r)
    \/ StatusStep
    \/ WdRead
    \/ WdCheck
    \/ WdStopCall
    \/ Tick

\* The teleop server with each controller call taken as one step: the
\* threads as they take, hold and release the lock on the command record.
SpecStatus == Init /\ [][NextStatus]_vars

----------------------------------------------------------------------------
(* Claims about the avoidance loop.                                         *)

\* Where run() is, looking through a wait to the position that follows it.
Pos == IF apc = "sleep" THEN sleep_ret ELSE apc

BackCmd == CmdDrive(RNeg(back_speed), RZero)
FwdCmd  == CmdDrive(fwd_speed, RZero)

IsRecoveryCmd(c) ==
    \/ c.op = "stop"
    \/ c.op = "drive" /\ c # FwdCmd

\* C4: in a tick whose reading lies strictly between near_mm and clear_mm
\* (the obstacle flag being clear), run() issues no stop, back-up or turn
\* command and does not enter the recovery sequence.
C4_BetweenThresholdsNoAvoidance ==
    (near_mm < tickMm /\ tickMm < clear_mm) =>
        \A i \in DOMAIN tickCmds : ~IsRecoveryCmd(tickCmds[i])

\* C5: a reading <= near_mm starts one recovery sequence whose commands are,
\* in this order and with nothing in between, stop(), drive(-back_speed, 0),
\* drive(0, +/-turn_steer), stop(); the obstacle flag stays set until the
\* last stop has been issued and is clear when the loop is reached again.
C5_RecoverySequenceOrder ==
    (tickMm # NoneMm /\ tickMm <= near_mm) =>
        LET turn == CmdDrive(RZero, steer) IN
        /\ Pos \in RecoveryPcs \cup {"loop"}
        /\ Pos = "rec_stop1" => obstacle /\ tickCmds = <<>>
        /\ Pos = "rec_back"  => obstacle /\ tickCmds = <<CmdStop>>
        /\ Pos = "rec_turn"  => obstacle /\ tickCmds = <<CmdStop, BackCmd>>
        /\ Pos \in {"rec_stop2", "rec_clear", "loop"} =>
               steer \in {turn_steer, RNeg(turn_steer)}
        /\ Pos = "rec_stop2" => obstacle /\ tickCmds = <<CmdStop, BackCmd, turn>>
        /\ Pos = "rec_clear" =>
               obstacle /\ tickCmds = <<CmdStop, BackCmd, turn, CmdStop>>
        /\ Pos = "loop" =>
               ~obstacle /\ tickCmds = <<CmdStop, BackCmd, turn, CmdStop>>

\* C5 witness: a recovery started by a reading <= near_mm has completed.
C5_Witness ==
    /\ tickMm # NoneMm /\ tickMm <= near_mm
    /\ apc = "loop"
    /\ Len(tickCmds) = 4
    /\ ~obstacle

C6_ReadsInv ==
    /\ tickReads <= 1
    /\ apc \in {"err_stop", "fwd_drive", "fwd_sleep", "sleep"} \cup RecoveryPcs
           => tickReads = 1
    /\ obstacle => tickReads = 1 /\ apc # "read"

\* C6: the sensor is read exactly once per loop iteration, and while the
\* obstacle flag is set (from the start of a recovery to its completion) no
\* step reads the sensor.
C6_NoPollingMidManeuver ==
    /\ []C6_ReadsInv
    /\ [][obstacle => tickReads' = tickReads]_vars

\* C6 witness: a recovery is in its held back-up wait, the flag set.
C6_Witness ==
    /\ obstacle
    /\ apc = "sleep" /\ sleep_ret = "rec_turn"
    /\ remaining < back_s
    /\ tickReads = 1

\* C7: in a tick whose reading is >= clear_mm the obstacle flag is clear,
\* the only command issued is drive(fwd_speed, 0), and run() goes on to the
\* next tick without entering the recovery sequence.
C7_ForwardRule ==
    tickMm >= clear_mm =>
        /\ ~obstacle
        /\ apc \in {"fwd_drive", "fwd_sleep", "loop"}
        /\ tickCmds = IF apc = "fwd_drive" THEN <<>> ELSE <<FwdCmd>>

\* C7 witness: a tick with the reading exactly clear_mm has driven forward.
C7_Witness ==
    /\ tickMm = clear_mm
    /\ apc = "loop"
    /\ tickCmds = <<FwdCmd>>
    /\ pwm["left"] = fwd_speed

\* C8: once a wait of the recovery sequence has observed the stop event, no
\* back-up or turn drive command is issued any more: the next actuator
\* command is stop().
C8_StopImmediatelyOnCancel == ~driveAfterStop

\* C9: once the stop event is set, run() eventually returns, and when it has
\* returned the last actuator command issued is stop() and the motors are
\* in the stopped state.
C9_CancellationEndsAtStop ==
    /\ stop_event ~> (apc = "returned")
    /\ [](apc = "returned" => lastCmd = CmdStop /\ Stopped)

\* C9 witness: run() has returned after a wait of a recovery observed the
\* stop event.
C9_Witness ==
    /\ apc = "returned"
    /\ sawStop
    /\ lastCmd = CmdStop

\* C10: when an actuator write fails, run() does not exit with the failure
\* before a stop() has been issued or attempted: the last command attempted
\* before the fatal exit is a stop().
C10_StopAttemptBeforeFatalExit ==
    apc = "raised" => lastCmd = CmdStop

\* The sensor read of the current loop iteration failed.
FailedTick == tickReads = 1 /\ tickMm = NoneMm

C11_FailedTickInv ==
    /\ FailedTick =>
        /\ Pos \in {"err_stop", "loop"}
        /\ apc # "err_stop" =>
            /\ tickCmds = <<CmdStop>>
            /\ Stopped
            /\ lastStatus = <<last_mm, "sensor_error">>
        /\ apc = "sleep" => remaining <= ErrorWaitS
    /\ apc \in {"final", "returned"} => stop_event
    /\ apc # "raised"

\* C11: in a tick whose sensor read fails, run() issues stop() and nothing
\* else, reports 'sensor_error' with the last successfully read distance
\* (None before the first one), waits at most the error back-off and goes
\* back to the loop test to read again; run() leaves the loop only with the
\* stop event set and never raises, however many reads fail in a row.
C11_SensorFailureTransient ==
    /\ []C11_FailedTickInv
    /\ [][IF tickReads' = tickReads + 1 /\ tickMm' # NoneMm
          THEN last_mm' = tickMm'
          ELSE last_mm' = last_mm]_vars
    /\ (FailedTick /\ apc = "err_stop") ~> (apc = "read" \/ stop_event)

\* C11 witness: the third failed read in a row has been handled, a distance
\* read earlier is still reported, and the loop goes on.
C11_Witness ==
    /\ failStreak = MaxFailStreak
    /\ FailedTick
    /\ apc = "loop"
    /\ ~stop_event
    /\ last_mm # NoneMm
    /\ lastStatus = <<last_mm, "sensor_error">>
    /\ Stopped

\* What the specification demands of a configuration.
ValidConfig(k) ==
    /\ 0 < k.near_mm /\ k.near_mm < k.clear_mm
    /\ \A v \in {k.fwd_speed, k.back_speed, k.turn_steer} :
           RLe(RZero, v) /\ RLe(v, ROne)
    /\ k.turn_s_min <= k.turn_s_max
    /\ 0 < k.back_s

\* C17: an invalid configuration is rejected or normalized at construction,
\* so whenever the loop of run() is running its configuration is valid.
C17_ConfigValidatedAtConstruction ==
    apc \notin {"start", "returned", "raised"} => ValidConfig(acfg)

\* C22: every heartbeat carries the (throttle, steering) of the command most
\* recently issued to the actuator, stop() counting as (0, 0): a step that
\* changes the last heartbeat leaves it equal to the pair of the last
\* command.
C22_HeartbeatFidelity ==
    [][lastBeat' # lastBeat => lastBeat' = <<lastCmd'.t, lastCmd'.s>>]_vars

\* C25: at the loop test and at the sensor read of every iteration the
\* obstacle flag is false, and on_status never receives the state 'avoid':
\* only 'forward' and 'sensor_error', also for the reading that starts a
\* recovery.
C25_FlagClearAtTickBoundary ==
    /\ apc \in {"loop", "read"} => ~obstacle
    /\ lastStatus # NoStatus => lastStatus[2] \in {"forward", "sensor_error"}

\* C25 witness: a reading <= near_mm has set the flag and started a
\* recovery, and was reported as 'forward'.
C25_Witness ==
    /\ obstacle
    /\ tickMm # NoneMm /\ tickMm <= near_mm
    /\ apc = "sleep" /\ sleep_ret = "rec_stop2"
    /\ lastStatus = <<tickMm, "forward">>

----------------------------------------------------------------------------
(* Claims about the MotorController.                                        *)

\* C12: no write changes a direction signal of a side while that side's
\* magnitude output is non-zero (on a change of direction the magnitude is
\* written to zero first).
C12_BreakBeforeMake ==
    [][\A sd \in Sides :
          (in1'[sd] # in1[sd] \/ in2'[sd] # in2[sd]) => pwm[sd] = RZero]_vars

\* C13: in every state, the states between the writes of one call included,
\* in1 and in2 of a side are never both on.
C13_DirectionSignalsExclusive ==
    \A sd \in Sides : ~(in1[sd] /\ in2[sd])

\* C14: whatever the calls and their inputs, each side's magnitude output is
\* within [0, max_pwm] of its controller.
C14_MaxPwmBound ==
    \A sd \in Sides : RLe(RZero, pwm[sd]) /\ RLe(pwm[sd], mk.max_pwm)

\* C14 witness: a drive whose calibrated wheel value exceeds the limit has
\* completed, on a controller with a multiplier above 1, and the output is at
\* the limit.
C14_Witness ==
    /\ midx = 0
    /\ mcmd = CmdDrive(<<2, 1>>, RZero)
    /\ RLt(ROne, mk.left_mult)
    /\ pwm["left"] = mk.max_pwm
    /\ RLt(mk.max_pwm, ROne)

\* C15: for every throttle and steering of a drive_arcade call, those outside
\* [-1, 1] included, the wheel values before calibration satisfy
\* max(|left|, |right|) <= 1.
C15_MixerUnitBound ==
    mcmd.op = "drive" =>
        LET m == Mix(mcmd.t, mcmd.s)
        IN  RLe(RAbs(m.left), ROne) /\ RLe(RAbs(m.right), ROne)

\* C15 witness: a call with both inputs outside [-1, 1] has completed; one
\* wheel value is at the bound.
C15_Witness ==
    /\ midx = 0
    /\ mcmd = CmdDrive(<<2, 1>>, <<-2, 1>>)
    /\ Mix(mcmd.t, mcmd.s).right = ROne
    /\ Mix(mcmd.t, mcmd.s).left = RZero

\* stop() and drive_arcade(0, 0)
StopCalls == {CmdStop, CmdDrive(RZero, RZero)}

\* C16: a completed stop() or drive_arcade(0, 0) leaves both magnitudes 0 and
\* all four direction signals off; the writes of either call made in that
\* state change nothing; and no write of either call changes the enable line.
C16_StopIdempotent ==
    /\ [](midx = 0 /\ mcmd \in StopCalls => Stopped)
    /\ [][midx >= 1 /\ mcmd \in StopCalls /\ Stopped => UNCHANGED motorVars]_vars
    /\ [][midx >= 1 /\ mcmd \in StopCalls => stby' = stby]_vars

\* C16 witness: drive_arcade(0, 0) has completed on a disabled controller
\* whose right multiplier is negative, and the motors are stopped.
C16_Witness ==
    /\ midx = 0
    /\ mcmd = CmdDrive(RZero, RZero)
    /\ RLt(mk.right_mult, RZero)
    /\ ~stby
    /\ Stopped

\* The throttle and steering of the call in progress after drive_arcade's
\* clamping to [-1, 1].
ClampedThrottle == Clamp(mcmd.t, RNeg(ROne), ROne)
ClampedSteering == Clamp(mcmd.s, RNeg(ROne), ROne)

\* |throttle| + |steering| of the clamped inputs.
InputSum == RAdd(RAbs(ClampedThrottle), RAbs(ClampedSteering))

\* C23: for a drive_arcade call whose clamped inputs satisfy |t| + |s| <= 1,
\* the wheel values before calibration are exactly left = t + s and
\* right = t - s (so left + right = 2t and left - right = 2s); otherwise both
\* are t + s and t - s divided by the same mag = |t| + |s| > 1, so neither
\* wheel value is larger in magnitude than the undivided one.
C23_MixerExactness ==
    mcmd.op = "drive" =>
        LET t == ClampedThrottle
            s == ClampedSteering
            m == Mix(mcmd.t, mcmd.s)
            two == <<2, 1>>
        IN  IF RLe(InputSum, ROne)
            THEN /\ m.left = RAdd(t, s)
                 /\ m.right = RSub(t, s)
                 /\ RAdd(m.left, m.right) = RMul(two, t)
                 /\ RSub(m.left, m.right) = RMul(two, s)
            ELSE /\ RMul(m.left, InputSum) = RAdd(t, s)
                 /\ RMul(m.right, InputSum) = RSub(t, s)
                 /\ RLe(RAbs(m.left), RAbs(RAdd(t, s)))
                 /\ RLe(RAbs(m.right), RAbs(RSub(t, s)))

\* C23 witness: a call with |t| + |s| = 1 and both inputs non-zero has
\* completed: the wheel values are the sum and the difference.
C23_Witness ==
    /\ midx = 0
    /\ mcmd = CmdDrive(<<-1, 2>>, <<-1, 2>>)
    /\ Mix(mcmd.t, mcmd.s) = [left |-> RNeg(ROne), right |-> RZero]

\* C24: for a drive_arcade call with throttle 0, whatever the steering, the
\* wheel values before calibration satisfy left = -right.
C24_TurnInPlaceAntisymmetric ==
    (mcmd.op = "drive" /\ mcmd.t = RZero) =>
        Mix(mcmd.t, mcmd.s).left = RNeg(Mix(mcmd.t, mcmd.s).right)

\* C24 witness: a turn in place with a steering beyond -1 has completed: the
\* wheel values are -1 and 1.
C24_Witness ==
    /\ midx = 0
    /\ mcmd = CmdDrive(RZero, <<-2, 1>>)
    /\ Mix(mcmd.t, mcmd.s) = [left |-> RNeg(ROne), right |-> ROne]

----------------------------------------------------------------------------
(* Claims about the teleop server.                                          *)

\* The watchdog has finished the iteration of the current instant.
WatchdogAsleep == wpc = "sleep" /\ (now < wake \/ ~ClockRuns)

\* The first instant at which the age of the last recorded command exceeds
\* DEADMAN_S.
ExpiryTime == last_cmd_ts + DEADMAN_S + 1

\* C1: once a command has been recorded, whenever its age has exceeded
\* DEADMAN_S and no newer command has been recorded, the watchdog has called
\* stop() since the threshold was exceeded, before one watchdog period has
\* passed: no instant from ExpiryTime + WatchdogPeriod - 1 on ends without
\* such a call.
C1_DeadmanBoundedResponse ==
    (last_cmd_ts # 0 /\ now >= ExpiryTime + WatchdogPeriod - 1 /\ WatchdogAsleep)
        => wdStopAt >= ExpiryTime

\* C1 witness: a command expired exactly one period ago and the watchdog has
\* stopped the motors since.
C1_Witness ==
    /\ last_cmd_ts # 0
    /\ now = ExpiryTime + WatchdogPeriod - 1
    /\ WatchdogAsleep
    /\ wdStopAt >= ExpiryTime
    /\ \E r \in Requests : hpc[r] = "done" /\ hcmd[r].op = "drive"

\* C2: with finitely many commands, every started handler finishing and the
\* watchdog scheduled, the actuator eventually is in the stopped state (both
\* magnitudes 0, all direction signals off) and stays there.
C2_DeadmanLiveness == <>[]Stopped

\* C2 witness: every request has been served, one of them a drive, the
\* watchdog has fired and the motors are stopped.
C2_Witness ==
    /\ \A r \in Requests : hpc[r] = "done"
    /\ \E r \in Requests : hcmd[r].op = "drive"
    /\ wdStopAt > last_cmd_ts + DEADMAN_S
    /\ wpc = "sleep"
    /\ Stopped

\* A thread is between two device writes of a controller call.
HandlerInCall(r) == hpc[r] = "act" /\ hidx[r] > 1
WatchdogInCall == wpc = "stop" /\ widx > 1

\* The devices as a complete call of command c leaves them (a call writes
\* every device).
CallResult(c) ==
    [ pwm |-> PwmFold([sd \in Sides |-> RZero], WritesOf[c], 6),
      in1 |-> In1Fold([sd \in Sides |-> FALSE], WritesOf[c], 6),
      in2 |-> In2Fold([sd \in Sides |-> FALSE], WritesOf[c], 6) ]

\* C3: the writes of one controller call are never interleaved with those of
\* another, so whenever no call is in progress the devices are as one
\* complete call left them.
C3_ActuatorWritesSerialized ==
    (~WatchdogInCall /\ \A r \in Requests : ~HandlerInCall(r)) =>
        \E c \in TeleopCommands :
            /\ pwm = CallResult(c).pwm
            /\ in1 = CallResult(c).in1
            /\ in2 = CallResult(c).in2

\* Every request has been served to the end of its handler.
AllHandlersDone == \A r \in Requests : hpc[r] = "done"

\* The devices as a complete drive_arcade(t, s) leaves them.
DriveResult(t, s) ==
    [ pwm |-> PwmFold([sd \in Sides |-> RZero], DriveArcadeWrites(t, s), 6),
      in1 |-> In1Fold([sd \in Sides |-> FALSE], DriveArcadeWrites(t, s), 6),
      in2 |-> In2Fold([sd \in Sides |-> FALSE], DriveArcadeWrites(t, s), 6) ]

\* The devices are as one complete call of a handler left them.
UntornOutputs ==
    \E c \in TeleopCommands :
        /\ pwm = CallResult(c).pwm
        /\ in1 = CallResult(c).in1
        /\ in2 = CallResult(c).in2

\* C18: once every handler has completed, the watchdog never having fired,
\* the devices (when they are as one complete call left them) are as
\* drive_arcade(_last_throttle, _last_steering) leaves them: the command
\* recorded last is the command applied last.
C18_LastWriterWins ==
    (AllHandlersDone /\ wdStopAt = 0 /\ wpc # "stop" /\ UntornOutputs) =>
        LET res == DriveResult(last_throttle, last_steering)
        IN  pwm = res.pwm /\ in1 = res.in1 /\ in2 = res.in2

\* The positions at which a request thread holds the lock.
InRecord(r) == hpc[r] \in {"w_throttle", "w_steering"}

\* The positions at which the status thread holds the lock.
InStatus == spc \in {"r_throttle", "r_steering"}

C19_LockInv ==
    /\ state_lock \in {"none", "request", "status"}
    /\ state_lock = "request" <=> \E r \in Requests : InRecord(r)
    /\ state_lock = "status" <=> InStatus
    /\ \A r1, r2 \in Requests : InRecord(r1) /\ InRecord(r2) => r1 = r2
    /\ \A r \in Requests :
           InRecord(r) => ENABLED (ReqRecordThrottle(r) \/ ReqRecordSteering(r))
    /\ InStatus => ENABLED (StatusThrottle \/ StatusSteering)
    /\ ENABLED NextStatus

\* C19: no reachable state is a deadlock; the lock is held only by a thread
\* inside its record block, one at a time, and the holder's next step is
\* always possible (it waits for nothing); the steps that take, hold or
\* release the lock write the record or read it and never a device.
C19_NoDeadlock ==
    /\ []C19_LockInv
    /\ [][(\/ state_lock' # state_lock
            \/ rec_by' # rec_by
            \/ (InStatus /\ spc' # spc)
            \/ (wpc = "sleep" /\ wpc' = "check"))
          => UNCHANGED motorVars]_vars

\* C19 witness: a handler holds the lock while the other handler is about to
\* call the controller, the watchdog's sleep has ended and a status query
\* can arrive.
C19_Witness ==
    /\ state_lock = "request"
    /\ \E r \in Requests : hpc[r] = "act"
    /\ wpc = "sleep" /\ now >= wake
    /\ spc = "idle"

\* C20: the three fields behind a status response were written by one and
\* the same record operation (or are the initial record), and the response
\* carries that operation's values.
C20_SnapshotAtomicity ==
    spc = "respond" =>
        /\ s_by[1] = s_by[2] /\ s_by[2] = s_by[3]
        /\ IF s_by[1] = 0
           THEN /\ s_ts = 0 /\ s_age = NoneAge
                /\ s_throttle = RZero /\ s_steering = RZero
           ELSE /\ s_ts # 0 /\ 0 <= s_age /\ s_age <= now - s_ts
                /\ s_throttle = hcmd[s_by[1]].t
                /\ s_steering = hcmd[s_by[1]].s

\* C20 witness: a status response carries the drive recorded by the second
\* request, the first one having recorded a stop.
C20_Witness ==
    /\ spc = "respond"
    /\ s_by = <<2, 2, 2>>
    /\ hcmd[1].op = "stop" /\ hcmd[2].op = "drive"
    /\ s_throttle = ROne
    /\ s_ts # 0

\* C21: _last_cmd_ts never decreases, whatever the interleaving of the
\* handlers, the status queries and the watchdog (the clock not decreasing).
C21_TimestampMonotonic ==
    [][last_cmd_ts' >= last_cmd_ts]_vars

\* C21 witness: the second request has recorded its command, later than the
\* first one can have.
C21_Witness ==
    /\ rec_by = <<2, 2, 2>>
    /\ last_cmd_ts > MaxTime

\* C26: while no command has been recorded (_last_cmd_ts still 0) the
\* watchdog has never called stop() and is not calling it, however long the
\* server has run, and a status query that read the timestamp 0 reports the
\* age None.
C26_WatchdogInertBeforeFirstCommand ==
    /\ last_cmd_ts = 0 => wpc # "stop" /\ wdStopAt = 0
    /\ (spc # "idle" /\ s_ts = 0) => s_age = NoneAge

\* C26 witness: the clock has advanced, the watchdog has completed
\* iterations without a stop, and a status response carries the age None.
C26_Witness ==
    /\ last_cmd_ts = 0
    /\ now = MaxTime
    /\ wpc = "sleep" /\ wake > now
    /\ wdStopAt = 0
    /\ spc = "respond" /\ s_age = NoneAge

\* C27: no step of the watchdog changes _last_cmd_ts, _last_throttle or
\* _last_steering, so a status response whose age exceeds DEADMAN_S still
\* carries the throttle and steering of the command recorded last.
C27_ExpiryLeavesRecord ==
    /\ [][wpc' # wpc =>
            UNCHANGED <<last_cmd_ts, last_throttle, last_steering>>]_vars
    /\ [](spc = "respond" /\ s_age > DEADMAN_S =>
            /\ s_by[1] # 0
            /\ s_throttle = hcmd[s_by[1]].t
            /\ s_steering = hcmd[s_by[1]].s)

\* C27 witness: the watchdog has stopped the motors after a drive expired,
\* and a status response reports throttle 1 with an age above DEADMAN_S.
C27_Witness ==
    /\ spc = "respond"
    /\ s_age > DEADMAN_S
    /\ s_throttle = ROne
    /\ wdStopAt > s_ts + DEADMAN_S
    /\ wpc = "sleep"
    /\ Stopped

====
